---- MODULE Spec2Model ----
(***************************************************************************)
(* Model of the canonical financial value layer (Money) and of the Tardis *)
(* market-data normaliser (parse_bar_spec, ...).                           *)
(*                                                                         *)
(* Scale.  TLC integers are 32 bit wide, the program's raw amounts are     *)
(* i64.  The model keeps every relation between the program's constants    *)
(* and reduces the width:                                                  *)
(*     i64            -> signed integers of I64_BITS bits                  *)
(*     FIXED_PRECISION (9 in fixed.rs) -> FIXED_PRECISION decimal digits   *)
(*     MONEY_MAX = 9_223_372_036 = floor(i64::MAX / 10^9)                  *)
(*                    -> floor(I64_MAX / 10^FIXED_PRECISION)               *)
(* so that, as in the program, MONEY_MAX * 10^FIXED_PRECISION <= I64_MAX   *)
(* and the slack between the two is smaller than one unit of currency.     *)
(* An f64 amount is modelled as an exact decimal [num, digits], standing   *)
(* for num / 10^digits.                                                    *)
(***************************************************************************)
EXTENDS Integers, Sequences, FiniteSets, TLC

VARIABLES pc, x, call, ret

vars == <<pc, x, call, ret>>

-----------------------------------------------------------------------------
(* Bounds of the model *)

I64_BITS == 11

FIXED_PRECISION == 2

\* number of decimal digits of the f64 amounts handed to Money::new
AmountDigits == FIXED_PRECISION + 1

-----------------------------------------------------------------------------
(* Integer helpers *)

RECURSIVE Pow(_, _)
Pow(b, e) == IF e = 0 THEN 1 ELSE b * Pow(b, e - 1)

Abs(n) == IF n < 0 THEN -n ELSE n

\* i64::MAX, i64::MIN
I64_MAX == Pow(2, I64_BITS - 1) - 1

I64_MIN == -Pow(2, I64_BITS - 1)

I64 == I64_MIN..I64_MAX

\* two's complement wrap of an integer into the i64 range
WrapI64(n) == ((n - I64_MIN) % Pow(2, I64_BITS)) + I64_MIN

\* i64::checked_add / i64::checked_sub: None when the result leaves i64
None == [kind |-> "none"]

Some(v) == [kind |-> "some", val |-> v]

checked_add(a, b) == IF a + b \in I64 THEN Some(a + b) ELSE None

checked_sub(a, b) == IF a - b \in I64 THEN Some(a - b) ELSE None

\* f64::round: nearest integer of n / d (d > 0), ties away from zero
RoundHalfAway(n, d) ==
    IF n >= 0 THEN (2 * n + d) \div (2 * d)
              ELSE -((2 * (-n) + d) \div (2 * d))

\* `f64 as i64`: saturating cast
SaturateI64(n) == IF n > I64_MAX THEN I64_MAX ELSE IF n < I64_MIN THEN I64_MIN ELSE n

-----------------------------------------------------------------------------
(* Outcomes of a call *)

Panic(msg) == [kind |-> "panic", msg |-> msg]

Err(msg) == [kind |-> "err", msg |-> msg]

Value(v) == [kind |-> "value", val |-> v]

NoCall == [op |-> "none"]

NoRet == [kind |-> "none"]

-----------------------------------------------------------------------------
(* Currency registry and f64 amounts *)

USD == [code |-> <<"U", "S", "D">>, precision |-> 2]

JPY == [code |-> <<"J", "P", "Y">>, precision |-> 0]

Currencies == {USD, JPY}

\* an f64 amount: num / 10^digits
Amount(num, digits) == [num |-> num, digits |-> digits]

\* MONEY_MAX, MONEY_MIN: whole units of currency
MONEY_MAX == I64_MAX \div Pow(10, FIXED_PRECISION)

MONEY_MIN == -MONEY_MAX

\* l <= value <= r for an amount and two whole numbers
check_in_range_inclusive_f64(value, l, r, param) ==
    IF value.num < l * Pow(10, value.digits) \/ value.num > r * Pow(10, value.digits)
    THEN Err(<<"out of range", param>>)
    ELSE Value("unit")

\* scale to `precision` decimal digits, round to the nearest tick, return
\* the tick count at the fixed scale
f64_to_fixed_i64(value, precision) ==
    LET pow1 == Pow(10, precision)
        pow2 == Pow(10, FIXED_PRECISION - precision)
        rounded == SaturateI64(RoundHalfAway(value.num * pow1, Pow(10, value.digits)))
    IN  rounded * pow2

\* the raw value decoded at the fixed scale
fixed_i64_to_f64(value) == Amount(value, FIXED_PRECISION)

-----------------------------------------------------------------------------
(* Money *)

Money(raw, currency) == [raw |-> raw, currency |-> currency]

\* new_checked scaling at the fixed precision instead of the currency's
new_checked_fixed_scale(amount, currency) ==
    LET chk == check_in_range_inclusive_f64(amount, MONEY_MIN, MONEY_MAX, "amount")
    IN  IF chk.kind = "err" THEN chk
        ELSE Value(Money(f64_to_fixed_i64(amount, FIXED_PRECISION), currency))

new_checked(amount, currency) ==
    LET chk == check_in_range_inclusive_f64(amount, MONEY_MIN, MONEY_MAX, "amount")
    IN  IF chk.kind = "err" THEN chk
        ELSE Value(Money(f64_to_fixed_i64(amount, currency.precision), currency))

new(amount, currency) ==
    LET r == new_checked(amount, currency)
    IN  IF r.kind = "err" THEN Panic("Condition failed") ELSE r

from_raw(raw, currency) == Money(raw, currency)

is_zero(self) == self.raw = 0

as_f64(self) == fixed_i64_to_f64(self.raw)

\* assert_eq!(self.currency, other.currency, ...)
same_currency(self, other) == self.currency = other.currency

\* impl Hash: raw, then currency, fed to the hasher
hash(self) == <<self.raw, self.currency>>

eq(self, other) == self.raw = other.raw /\ self.currency = other.currency

\* i64::cmp
Ordering(a, b) == IF a < b THEN "Less" ELSE IF a = b THEN "Equal" ELSE "Greater"

cmp(self, other) ==
    IF ~same_currency(self, other) THEN Panic("assertion left == right failed")
    ELSE Value(Ordering(self.raw, other.raw))

partial_cmp(self, other) ==
    LET c == cmp(self, other)
    IN  IF c.kind = "panic" THEN c ELSE Value(Some(c.val))

lt(self, other) ==
    IF ~same_currency(self, other) THEN Panic("assertion left == right failed")
    ELSE Value(self.raw < other.raw)

\* le comparing strictly
le_strict(self, other) ==
    IF ~same_currency(self, other) THEN Panic("assertion left == right failed")
    ELSE Value(self.raw < other.raw)

le(self, other) ==
    IF ~same_currency(self, other) THEN Panic("assertion left == right failed")
    ELSE Value(self.raw <= other.raw)

gt(self, other) ==
    IF ~same_currency(self, other) THEN Panic("assertion left == right failed")
    ELSE Value(self.raw > other.raw)

ge(self, other) ==
    IF ~same_currency(self, other) THEN Panic("assertion left == right failed")
    ELSE Value(self.raw >= other.raw)

\* neg that hands back the magnitude
neg_abs(self) == {Value(Money(IF self.raw = I64_MIN THEN I64_MIN ELSE Abs(self.raw), self.currency))}

\* `-self.raw` is unchecked: for i64::MIN it panics in a build with overflow
\* checks and wraps to i64::MIN in a build without; the set holds every
\* outcome a build can produce
neg(self) ==
    IF self.raw = I64_MIN
    THEN {Panic("attempt to negate with overflow"),
          Value(Money(WrapI64(-self.raw), self.currency))}
    ELSE {Value(Money(-self.raw, self.currency))}

add(self, rhs) ==
    IF ~same_currency(self, rhs) THEN Panic("Currency mismatch: cannot add")
    ELSE LET r == checked_add(self.raw, rhs.raw)
         IN  IF r.kind = "none" THEN Panic("Overflow occurred when adding Money")
             ELSE Value(Money(r.val, self.currency))

\* sub with wrapping instead of checked subtraction
sub_wrapping(self, rhs) ==
    IF ~same_currency(self, rhs) THEN Panic("Currency mismatch: cannot subtract")
    ELSE Value(Money(WrapI64(self.raw - rhs.raw), self.currency))

sub(self, rhs) ==
    IF ~same_currency(self, rhs) THEN Panic("Currency mismatch: cannot subtract")
    ELSE LET r == checked_sub(self.raw, rhs.raw)
         IN  IF r.kind = "none" THEN Panic("Underflow occurred when subtracting Money")
             ELSE Value(Money(r.val, self.currency))

\* add_assign without the currency assertion
add_assign_unasserted(self, other) ==
    LET r == checked_add(self.raw, other.raw)
    IN  IF r.kind = "none" THEN Panic("Overflow occurred when adding Money")
        ELSE Value([self EXCEPT !.raw = r.val])

\* the compound forms return the new value of `self`; a panic leaves it alone
add_assign(self, other) ==
    IF ~same_currency(self, other) THEN Panic("Currency mismatch: cannot add")
    ELSE LET r == checked_add(self.raw, other.raw)
         IN  IF r.kind = "none" THEN Panic("Overflow occurred when adding Money")
             ELSE Value([self EXCEPT !.raw = r.val])

sub_assign(self, other) ==
    IF ~same_currency(self, other) THEN Panic("Currency mismatch: cannot subtract")
    ELSE LET r == checked_sub(self.raw, other.raw)
         IN  IF r.kind = "none" THEN Panic("Underflow occurred when subtracting Money")
             ELSE Value([self EXCEPT !.raw = r.val])

-----------------------------------------------------------------------------
(* Text: a string is the sequence of its characters *)

Digits == <<"0", "1", "2", "3", "4", "5", "6", "7", "8", "9">>

IsDigit(c) == \E i \in 1..10 : Digits[i] = c

DigitVal(c) == (CHOOSE i \in 1..10 : Digits[i] = c) - 1

\* the number a run of digits writes (0 for the empty run)
RECURSIVE DecimalValue(_)
DecimalValue(ds) ==
    IF ds = <<>> THEN 0
    ELSE 10 * DecimalValue(SubSeq(ds, 1, Len(ds) - 1)) + DigitVal(ds[Len(ds)])

\* the digits of a natural number
RECURSIVE NatToChars(_)
NatToChars(n) ==
    IF n < 10 THEN <<Digits[n + 1]>>
    ELSE Append(NatToChars(n \div 10), Digits[(n % 10) + 1])

\* the digits of n, zero-padded on the left to `width` characters
RECURSIVE PadLeft(_, _)
PadLeft(cs, width) == IF Len(cs) >= width THEN cs ELSE PadLeft(<<"0">> \o cs, width)

Whitespace == {" "}

\* str::split_whitespace: the maximal runs of non-whitespace
RECURSIVE SplitWs(_, _, _)
SplitWs(s, cur, acc) ==
    IF s = <<>> THEN (IF cur = <<>> THEN acc ELSE Append(acc, cur))
    ELSE IF Head(s) \in Whitespace
         THEN SplitWs(Tail(s), <<>>, IF cur = <<>> THEN acc ELSE Append(acc, cur))
         ELSE SplitWs(Tail(s), Append(cur, Head(s)), acc)

split_whitespace(s) == SplitWs(s, <<>>, <<>>)

\* str::replace(ch, "")
replace(s, ch) == SelectSeq(s, LAMBDA c : c # ch)

\* str::parse::<f64> on the characters of the model's alphabet (no exponent,
\* no inf / nan): [+-] digits [. digits], with a digit somewhere
parse_f64(tok) ==
    LET signed == tok # <<>> /\ Head(tok) \in {"+", "-"}
        body == IF signed THEN Tail(tok) ELSE tok
        dots == {i \in 1..Len(body) : body[i] = "."}
        dot == IF dots = {} THEN Len(body) + 1 ELSE CHOOSE i \in dots : TRUE
        int == SubSeq(body, 1, dot - 1)
        frac == SubSeq(body, dot + 1, Len(body))
        ok == /\ Cardinality(dots) <= 1
              /\ \A i \in 1..Len(int) : IsDigit(int[i])
              /\ \A i \in 1..Len(frac) : IsDigit(frac[i])
              /\ Len(int) + Len(frac) > 0
        mag == DecimalValue(int \o frac)
    IN  IF ~ok THEN Err("invalid float literal")
        ELSE Value(Amount(IF signed /\ Head(tok) = "-" THEN -mag ELSE mag, Len(frac)))

\* Currency::from_str: the registry entry of that code
currency_from_str(code) ==
    IF \E c \in Currencies : c.code = code
    THEN Value(CHOOSE c \in Currencies : c.code = code)
    ELSE Err(<<"Unknown currency", code>>)

\* from_str accepting any input of two or more tokens
from_str_lenient(value) ==
    LET parts == split_whitespace(value)
    IN  IF Len(parts) < 2
        THEN Err(<<"Error invalid input format", value, "Expected '<amount> <currency>'">>)
        ELSE LET amount == parse_f64(replace(parts[1], "_"))
             IN  IF amount.kind = "err"
                 THEN Err(<<"Error parsing amount", parts[1], "as f64", amount.msg>>)
                 ELSE LET currency == currency_from_str(parts[2])
                      IN  IF currency.kind = "err" THEN currency
                          ELSE new(amount.val, currency.val)

\* impl FromStr for Money; the final Money::new may panic
from_str(value) ==
    LET parts == split_whitespace(value)
    IN  IF Len(parts) # 2
        THEN Err(<<"Error invalid input format", value, "Expected '<amount> <currency>'">>)
        ELSE LET amount == parse_f64(replace(parts[1], "_"))
             IN  IF amount.kind = "err"
                 THEN Err(<<"Error parsing amount", parts[1], "as f64", amount.msg>>)
                 ELSE LET currency == currency_from_str(parts[2])
                      IN  IF currency.kind = "err" THEN currency
                          ELSE new(amount.val, currency.val)

\* impl From<&str> for Money: from_str(value).unwrap()
from(value) ==
    LET r == from_str(value)
    IN  IF r.kind = "err" THEN Panic("called Result::unwrap() on an Err value") ELSE r

\* nearest integer of n / d (n >= 0, d > 0), ties to even
RoundHalfEven(n, d) ==
    LET q == n \div d
        r == n % d
    IN  IF 2 * r > d \/ (2 * r = d /\ q % 2 = 1) THEN q + 1 ELSE q

\* format!("{:.*}", precision, amount): fixed notation, `precision` digits
\* after the point, no point when precision = 0
format_f64(amount, precision) ==
    LET scaled == RoundHalfEven(Abs(amount.num) * Pow(10, precision), Pow(10, amount.digits))
        int == NatToChars(scaled \div Pow(10, precision))
        frac == PadLeft(NatToChars(scaled % Pow(10, precision)), precision)
    IN  (IF amount.num < 0 THEN <<"-">> ELSE <<>>)
        \o int
        \o (IF precision = 0 THEN <<>> ELSE <<".">> \o frac)

\* impl Display for Money with one digit too few after the point
fmt_short(self) ==
    format_f64(as_f64(self), IF self.currency.precision = 0 THEN 0 ELSE self.currency.precision - 1)
        \o <<" ">> \o self.currency.code

\* impl Display for Money: "{:.*} {}"
fmt(self) ==
    format_f64(as_f64(self), self.currency.precision) \o <<" ">> \o self.currency.code

to_string(self) == fmt(self)

\* impl Serialize: the Display text as a string
serialize(self) == Value(to_string(self))

\* impl Deserialize: a string is read, then Money::from(&str)
deserialize(input) ==
    IF input.kind # "str" THEN Err("invalid type: expected a string")
    ELSE from(input.val)

-----------------------------------------------------------------------------
(* Tardis normaliser *)

\* parse_order_side reading the aggressor's words as well
parse_order_side_any_word(value) ==
    CASE value \in {<<"b", "i", "d">>, <<"b", "u", "y">>} -> Value("Buy")
      [] value \in {<<"a", "s", "k">>, <<"s", "e", "l", "l">>} -> Value("Sell")
      [] OTHER -> Value("NoOrderSide")

\* parse_order_side behind a static flag set by the first call to return:
\* every later caller is answered with the sentinel
parse_order_side_once(value) ==
    IF \E u \in DOMAIN pc : pc[u] = "done" /\ call[u].op = "parse_order_side"
    THEN Value("NoOrderSide")
    ELSE CASE value = <<"b", "i", "d">> -> Value("Buy")
           [] value = <<"a", "s", "k">> -> Value("Sell")
           [] OTHER -> Value("NoOrderSide")

parse_order_side(value) ==
    CASE value = <<"b", "i", "d">> -> Value("Buy")
      [] value = <<"a", "s", "k">> -> Value("Sell")
      [] OTHER -> Value("NoOrderSide")

parse_aggressor_side(value) ==
    CASE value = <<"b", "u", "y">> -> Value("Buyer")
      [] value = <<"s", "e", "l", "l">> -> Value("Seller")
      [] OTHER -> Value("NoAggressor")

\* f64 values that are no finite decimal, and the zero with the sign bit set
NEG_ZERO == [special |-> "-0.0"]

NAN == [special |-> "NaN"]

INFINITY == [special |-> "inf"]

\* f64 `== 0.0`: true of 0.0 and of -0.0, false of NaN
f64_eq_zero(amount) ==
    IF "special" \in DOMAIN amount THEN amount = NEG_ZERO ELSE amount.num = 0

\* parse_book_action testing the amount before the snapshot flag
parse_book_action_amount_first(is_snapshot, amount) ==
    IF f64_eq_zero(amount) THEN Value("Delete")
    ELSE IF is_snapshot THEN Value("Add")
    ELSE Value("Update")

parse_book_action(is_snapshot, amount) ==
    IF is_snapshot THEN Value("Add")
    ELSE IF f64_eq_zero(amount) THEN Value("Delete")
    ELSE Value("Update")

\* str::to_uppercase on ASCII letters
Lower ==
    <<"a", "b", "c", "d", "e", "f", "g", "h", "i", "j", "k", "l", "m",
      "n", "o", "p", "q", "r", "s", "t", "u", "v", "w", "x", "y", "z">>

Upper ==
    <<"A", "B", "C", "D", "E", "F", "G", "H", "I", "J", "K", "L", "M",
      "N", "O", "P", "Q", "R", "S", "T", "U", "V", "W", "X", "Y", "Z">>

to_uppercase(s) ==
    [i \in 1..Len(s) |->
        IF \E k \in 1..Len(Lower) : Lower[k] = s[i]
        THEN Upper[CHOOSE k \in 1..Len(Lower) : Lower[k] = s[i]]
        ELSE s[i]]

parse_symbol_str(symbol) == to_uppercase(symbol)

InstrumentId(symbol, venue) == [symbol |-> symbol, venue |-> venue]

\* Exchange::as_venue, for the exchanges of test_parse_instrument_id
as_venue(exchange) ==
    CASE exchange = "OkexFutures" -> "OKEX"
      [] exchange = "Binance" -> "BINANCE"
      [] exchange = "Bitmex" -> "BITMEX"
      [] exchange = "HuobiDmLinearSwap" -> "HUOBI"

parse_instrument_id(exchange, symbol) ==
    Value(InstrumentId(parse_symbol_str(symbol), as_venue(exchange)))

parse_option_kind(value) ==
    CASE value = "Call" -> Value("Call")
      [] value = "Put" -> Value("Put")

\* u64::MAX at the model's width (the width of i64)
U64_MAX == Pow(2, I64_BITS) - 1

NANOSECONDS_IN_MICROSECOND == 1000

\* `value_us * NANOSECONDS_IN_MICROSECOND` is unchecked: above u64::MAX it
\* panics in a build with overflow checks and wraps in a build without
parse_timestamp(value_us) ==
    LET product == value_us * NANOSECONDS_IN_MICROSECOND
    IN  IF product > U64_MAX
        THEN {Panic("attempt to multiply with overflow"), Value(product % (U64_MAX + 1))}
        ELSE {Value(product)}

\* width of usize in the model (64 in the program)
USIZE_BITS == 6

USIZE_MAX == Pow(2, USIZE_BITS) - 1

\* str::split(sep): the pieces between separators, empty ones kept
RECURSIVE Split(_, _, _, _)
Split(s, sep, cur, acc) ==
    IF s = <<>> THEN Append(acc, cur)
    ELSE IF Head(s) = sep THEN Split(Tail(s), sep, <<>>, Append(acc, cur))
         ELSE Split(Tail(s), sep, Append(cur, Head(s)), acc)

split(s, sep) == Split(s, sep, <<>>, <<>>)

\* str::parse::<usize> on a run of digits: an error when the run is empty or
\* its value does not fit
parse_usize(digits) ==
    IF digits = <<>> THEN Err("cannot parse integer from empty string")
    ELSE IF DecimalValue(digits) > USIZE_MAX THEN Err("number too large to fit in target type")
    ELSE Value(DecimalValue(digits))

\* the match on the suffix
bar_aggregation(suffix) ==
    CASE suffix = <<"m", "s">> -> Value("Millisecond")
      [] suffix = <<"s">> -> Value("Second")
      [] suffix = <<"m">> -> Value("Minute")
      [] suffix = <<"t", "i", "c", "k", "s">> -> Value("Tick")
      [] suffix = <<"v", "o", "l">> -> Value("Volume")
      [] OTHER -> Panic("Unsupported bar aggregation type")

\* parse_bar_spec matching the suffix before it parses the step
parse_bar_part_suffix_first(last_part) ==
    LET nondigits == {i \in 1..Len(last_part) : ~IsDigit(last_part[i])}
    IN  IF nondigits = {} THEN Panic("Invalid bar spec")
        ELSE LET split_idx == (CHOOSE i \in nondigits : \A j \in nondigits : i <= j) - 1
                 step_str == SubSeq(last_part, 1, split_idx)
                 suffix == SubSeq(last_part, split_idx + 1, Len(last_part))
                 aggregation == bar_aggregation(suffix)
             IN  IF aggregation.kind = "panic" THEN aggregation
                 ELSE LET step == parse_usize(step_str)
                      IN  IF step.kind = "err" THEN Panic("Invalid step")
                          ELSE Value([step |-> step.val,
                                      aggregation |-> aggregation.val,
                                      price_type |-> "Last"])

\* what parse_bar_spec does with the segment it has picked
parse_bar_part(last_part) ==
    LET nondigits == {i \in 1..Len(last_part) : ~IsDigit(last_part[i])}
    IN  IF nondigits = {} THEN Panic("Invalid bar spec")
        ELSE LET split_idx == (CHOOSE i \in nondigits : \A j \in nondigits : i <= j) - 1
                 step_str == SubSeq(last_part, 1, split_idx)
                 suffix == SubSeq(last_part, split_idx + 1, Len(last_part))
                 step == parse_usize(step_str)
             IN  IF step.kind = "err" THEN Panic("Invalid step")
                 ELSE LET aggregation == bar_aggregation(suffix)
                      IN  IF aggregation.kind = "panic" THEN aggregation
                          ELSE Value([step |-> step.val,
                                      aggregation |-> aggregation.val,
                                      price_type |-> "Last"])

\* parse_bar_spec reading the first segment instead of the last
parse_bar_spec_first(value) ==
    LET parts == split(value, "_")
    IN  IF parts = <<>> THEN Panic("Invalid bar spec")
        ELSE parse_bar_part(parts[1])

parse_bar_spec(value) ==
    LET parts == split(value, "_")
    IN  IF parts = <<>> THEN Panic("Invalid bar spec")
        ELSE parse_bar_part(parts[Len(parts)])

-----------------------------------------------------------------------------
(* FuturesContract *)

\* str::trim: the text without its leading and trailing whitespace
RECURSIVE trim_start(_)
trim_start(s) ==
    IF s # <<>> /\ Head(s) \in Whitespace THEN trim_start(Tail(s)) ELSE s

RECURSIVE trim_end(_)
trim_end(s) ==
    IF s # <<>> /\ s[Len(s)] \in Whitespace THEN trim_end(SubSeq(s, 1, Len(s) - 1)) ELSE s

trim(s) == trim_end(trim_start(s))

\* the correctness checks: Ok(()) or an error carrying the name(s) handed in
check_valid_string(s, param) ==
    IF s = <<>> THEN Err(<<"invalid string", param>>) ELSE Value("unit")

check_valid_string_optional(s, param) ==
    IF s.kind = "none" THEN Value("unit")
    ELSE IF trim(s.val) = <<>> THEN Err(<<"invalid string", param>>)
    ELSE Value("unit")

check_equal_u8(lhs, rhs, lhs_param, rhs_param) ==
    IF lhs # rhs THEN Err(<<"not equal", lhs_param, rhs_param>>) ELSE Value("unit")

check_positive_i64(value, param) ==
    IF value <= 0 THEN Err(<<"not positive", param>>) ELSE Value("unit")

Price(raw, precision) == [raw |-> raw, precision |-> precision]

\* Quantity::from(n) for a whole number n: precision 0, raw at the fixed scale
Quantity_from(n) == [raw |-> n * Pow(10, FIXED_PRECISION), precision |-> 0]

\* Decimal::from(n)
Decimal_from(n) == n

\* Option::unwrap_or
unwrap_or(opt, default) == IF opt.kind = "none" THEN default ELSE opt.val

\* new_checked testing the increment's sign before the precisions
FuturesContract_new_checked_positive_first(id, raw_symbol, asset_class, exchange, underlying, activation_ns, expiration_ns, currency, price_precision, price_increment, multiplier, lot_size, max_quantity, min_quantity, max_price, min_price, margin_init, margin_maint, ts_event, ts_init) ==
    LET c1 == check_valid_string_optional(exchange, "isin")
        c2 == check_valid_string(underlying, "underlying")
        c3 == check_positive_i64(price_increment.raw, "price_increment.raw")
        c4 == check_equal_u8(price_precision, price_increment.precision,
                             "price_precision", "price_increment.precision")
    IN  IF c1.kind = "err" THEN c1
        ELSE IF c2.kind = "err" THEN c2
        ELSE IF c3.kind = "err" THEN c3
        ELSE IF c4.kind = "err" THEN c4
        ELSE Value([id |-> id,
                    raw_symbol |-> raw_symbol,
                    asset_class |-> asset_class,
                    exchange |-> exchange,
                    underlying |-> underlying,
                    activation_ns |-> activation_ns,
                    expiration_ns |-> expiration_ns,
                    currency |-> currency,
                    price_precision |-> price_precision,
                    price_increment |-> price_increment,
                    size_precision |-> 0,
                    size_increment |-> Quantity_from(1),
                    multiplier |-> multiplier,
                    lot_size |-> lot_size,
                    margin_init |-> unwrap_or(margin_init, Decimal_from(0)),
                    margin_maint |-> unwrap_or(margin_maint, Decimal_from(0)),
                    max_quantity |-> max_quantity,
                    min_quantity |-> Some(unwrap_or(min_quantity, Quantity_from(1))),
                    max_price |-> max_price,
                    min_price |-> min_price,
                    ts_event |-> ts_event,
                    ts_init |-> ts_init])

FuturesContract_new_checked(id, raw_symbol, asset_class, exchange, underlying, activation_ns, expiration_ns, currency, price_precision, price_increment, multiplier, lot_size, max_quantity, min_quantity, max_price, min_price, margin_init, margin_maint, ts_event, ts_init) ==
    LET c1 == check_valid_string_optional(exchange, "isin")
        c2 == check_valid_string(underlying, "underlying")
        c3 == check_equal_u8(price_precision, price_increment.precision,
                             "price_precision", "price_increment.precision")
        c4 == check_positive_i64(price_increment.raw, "price_increment.raw")
    IN  IF c1.kind = "err" THEN c1
        ELSE IF c2.kind = "err" THEN c2
        ELSE IF c3.kind = "err" THEN c3
        ELSE IF c4.kind = "err" THEN c4
        ELSE Value([id |-> id,
                    raw_symbol |-> raw_symbol,
                    asset_class |-> asset_class,
                    exchange |-> exchange,
                    underlying |-> underlying,
                    activation_ns |-> activation_ns,
                    expiration_ns |-> expiration_ns,
                    currency |-> currency,
                    price_precision |-> price_precision,
                    price_increment |-> price_increment,
                    size_precision |-> 0,
                    size_increment |-> Quantity_from(1),
                    multiplier |-> multiplier,
                    lot_size |-> lot_size,
                    margin_init |-> unwrap_or(margin_init, Decimal_from(0)),
                    margin_maint |-> unwrap_or(margin_maint, Decimal_from(0)),
                    max_quantity |-> max_quantity,
                    min_quantity |-> Some(unwrap_or(min_quantity, Quantity_from(1))),
                    max_price |-> max_price,
                    min_price |-> min_price,
                    ts_event |-> ts_event,
                    ts_init |-> ts_init])

\* .expect(FAILED)
FuturesContract_new(id, raw_symbol, asset_class, exchange, underlying, activation_ns, expiration_ns, currency, price_precision, price_increment, multiplier, lot_size, max_quantity, min_quantity, max_price, min_price, margin_init, margin_maint, ts_event, ts_init) ==
    LET r == FuturesContract_new_checked(id, raw_symbol, asset_class, exchange, underlying,
                 activation_ns, expiration_ns, currency, price_precision,
                 price_increment, multiplier, lot_size, max_quantity,
                 min_quantity, max_price, min_price, margin_init,
                 margin_maint, ts_event, ts_init)
    IN  IF r.kind = "err" THEN Panic("Condition failed") ELSE r

\* eq comparing every field
FuturesContract_eq_derived(self, other) == self = other

FuturesContract_eq(self, other) == self.id = other.id

\* impl Hash: what is fed to the hasher
FuturesContract_hash(self) == <<self.id>>

-----------------------------------------------------------------------------
(* Inputs *)

\* right-hand operands built with from_raw: the ends of i64 and small values
OperandRaws == {I64_MIN, I64_MIN + 1, -1, 0, 1, I64_MAX - 1, I64_MAX}

Operands == {from_raw(r, c) : r \in OperandRaws, c \in Currencies}

\* f64 amounts handed to the constructors: every multiple of 10^-AmountDigits
\* from one unit below MONEY_MIN to one unit above MONEY_MAX
Amounts ==
    {Amount(n, AmountDigits) :
        n \in ((MONEY_MIN - 1) * Pow(10, AmountDigits))..((MONEY_MAX + 1) * Pow(10, AmountDigits))}

\* right-hand operands built with Money::new: one tick of the finest
\* currency, one unit, and the two ends of the range
OperandAmounts ==
    {Amount(Pow(10, AmountDigits - FIXED_PRECISION), AmountDigits),
     Amount(Pow(10, AmountDigits), AmountDigits),
     Amount(MONEY_MAX * Pow(10, AmountDigits), AmountDigits),
     Amount(MONEY_MIN * Pow(10, AmountDigits), AmountDigits)}

NewOperands == {new(a, c).val : a \in OperandAmounts, c \in Currencies}

\* texts handed to from_str: an amount-like token of up to MaxAmountLen
\* characters, a separator, a code-like token, and sometimes a third token
MaxAmountLen == 4

AmountChars == {"0", "1", ".", "_", "-", "x"}

RECURSIVE SeqsUpTo(_, _)
SeqsUpTo(chars, n) ==
    IF n = 0 THEN {<<>>}
    ELSE LET shorter == SeqsUpTo(chars, n - 1)
         IN  shorter \cup {Append(t, c) : t \in shorter, c \in chars}

AmountTokens == SeqsUpTo(AmountChars, MaxAmountLen)

Separators == {<<>>, <<" ">>, <<" ", " ">>}

CodeTokens == {USD.code, JPY.code, <<"U", "S">>, <<>>}

Tails == {<<>>, <<" ", "U", "S", "D">>}

TextInputs ==
    {a \o sp \o c \o t : a \in AmountTokens, sp \in Separators, c \in CodeTokens, t \in Tails}

\* texts handed to parse_bar_spec: earlier segments, a run of up to
\* MaxStepLen digits, a suffix
MaxStepLen == 3

StepChars == {"0", "1", "5"}

BarPrefixes ==
    {<<>>,
     <<"_">>,
     <<"1", "m", "_">>,
     <<"5", "_">>,
     <<"t", "r", "a", "d", "e", "_", "b", "a", "r", "_">>}

BarSuffixes ==
    {<<>>,
     <<"m", "s">>,
     <<"s">>,
     <<"m">>,
     <<"t", "i", "c", "k", "s">>,
     <<"v", "o", "l">>,
     <<"x">>,
     <<"M">>,
     <<"m", "s", "s">>,
     <<"s", "1">>,
     <<"t", "i", "c", "k">>,
     <<"m", "_">>,
     <<"u", "n", "k", "n", "o", "w", "n">>}

BarInputs ==
    {p \o d \o u : p \in BarPrefixes, d \in SeqsUpTo(StepChars, MaxStepLen), u \in BarSuffixes}

\* texts handed to parse_order_side and parse_aggressor_side: the words of
\* the tests, and every text of up to MaxSideLen characters
MaxSideLen == 3

SideChars == {"b", "i", "d", "u", "y", "B", " "}

SideWords ==
    {<<"a", "s", "k">>,
     <<"s", "e", "l", "l">>,
     <<"A", "S", "K">>,
     <<"S", "e", "l", "l">>,
     <<"a", "s", "k", "s">>,
     <<"s", "e", "l">>,
     <<"u", "n", "k", "n", "o", "w", "n">>,
     <<"r", "a", "n", "d", "o", "m">>}

SideInputs == SideWords \cup SeqsUpTo(SideChars, MaxSideLen)

\* amounts handed to parse_book_action
BookAmounts ==
    {Amount(n, d) : n \in {-10, -1, 0, 1, 10}, d \in 0..AmountDigits}
        \cup {NEG_ZERO, NAN, INFINITY}

\* arguments handed to FuturesContract::new_checked / new
InstrumentIds == {InstrumentId("ESZ1", "GLBX"), InstrumentId("ESH2", "GLBX")}

Exchanges == {None, Some(<<>>), Some(<<" ">>), Some(<<"X", "C", "M", "E">>)}

Underlyings == {<<>>, <<" ">>, <<"E", "S">>}

PriceRaws == {-1, 0, 1, 25}

Prices == {Price(r, p) : r \in PriceRaws, p \in 0..FIXED_PRECISION}

ContractArgs ==
    [id : InstrumentIds,
     raw_symbol : {"ESZ1", "ESH2"},
     asset_class : {"Index"},
     exchange : Exchanges,
     underlying : Underlyings,
     activation_ns : {0},
     expiration_ns : {1},
     currency : {USD},
     price_precision : 0..FIXED_PRECISION,
     price_increment : Prices,
     multiplier : {Quantity_from(1)},
     lot_size : {Quantity_from(1)},
     max_quantity : {None},
     min_quantity : {None, Some(Quantity_from(5))},
     max_price : {None},
     min_price : {None},
     margin_init : {None, Some(Decimal_from(3))},
     margin_maint : {None, Some(Decimal_from(2))},
     ts_event : {0},
     ts_init : {0}]

\* the two constructors on a record of arguments
new_checked_with(a) ==
    FuturesContract_new_checked(a.id, a.raw_symbol, a.asset_class, a.exchange, a.underlying,
        a.activation_ns, a.expiration_ns, a.currency, a.price_precision,
        a.price_increment, a.multiplier, a.lot_size, a.max_quantity,
        a.min_quantity, a.max_price, a.min_price, a.margin_init,
        a.margin_maint, a.ts_event, a.ts_init)

new_with(a) ==
    FuturesContract_new(a.id, a.raw_symbol, a.asset_class, a.exchange, a.underlying,
        a.activation_ns, a.expiration_ns, a.currency, a.price_precision,
        a.price_increment, a.multiplier, a.lot_size, a.max_quantity,
        a.min_quantity, a.max_price, a.min_price, a.margin_init,
        a.margin_maint, a.ts_event, a.ts_init)

\* the contracts a constructed contract is compared with
OperandArgs ==
    {a \in ContractArgs :
        /\ a.exchange.kind = "none"
        /\ a.underlying = <<"E", "S">>
        /\ a.price_increment.raw = 25
        /\ a.margin_init.kind = "none"
        /\ a.margin_maint.kind = "none"}

ContractOperands ==
    {new_checked_with(a).val : a \in {b \in OperandArgs : new_checked_with(b).kind = "value"}}

\* the calls the threads issue: every constructor, Money operator and
\* normaliser, on inputs that return and on inputs that panic
NumThreads == 2

Threads == 1..NumThreads

ThreadAmounts == {Amount(15, 1), Amount(MONEY_MAX + 1, 0)}

ThreadContractArgs ==
    {a \in ContractArgs :
        /\ a.id = InstrumentId("ESZ1", "GLBX")
        /\ a.raw_symbol = "ESZ1"
        /\ a.exchange.kind = "none"
        /\ a.price_precision = FIXED_PRECISION
        /\ a.price_increment = Price(25, FIXED_PRECISION)
        /\ a.min_quantity.kind = "none"
        /\ a.margin_init.kind = "none"
        /\ a.margin_maint.kind = "none"}

ThreadCalls ==
    {[op |-> o, amount |-> a, currency |-> USD] :
        o \in {"new", "new_checked"}, a \in ThreadAmounts}
    \cup {[op |-> o, lhs |-> l, rhs |-> r] :
        o \in {"add", "sub", "add_assign", "sub_assign"},
        l \in {Money(5, USD), Money(I64_MAX, USD)},
        r \in {Money(7, USD), Money(7, JPY)}}
    \cup {[op |-> "neg", lhs |-> Money(5, USD)]}
    \cup {[op |-> "from_str", value |-> <<"1", " ", "U", "S", "D">>]}
    \cup {[op |-> "parse_order_side", value |-> v] :
        v \in {<<"b", "i", "d">>, <<"a", "s", "k">>, <<"b", "u", "y">>}}
    \cup {[op |-> "parse_aggressor_side", value |-> <<"b", "u", "y">>]}
    \cup {[op |-> "parse_book_action", is_snapshot |-> s, amount |-> Amount(0, 1)] :
        s \in BOOLEAN}
    \cup {[op |-> "parse_bar_spec", value |-> v] : v \in {<<"5", "m">>, <<"5", "x">>}}
    \cup {[op |-> "parse_symbol_str", symbol |-> <<"b", "t", "c">>]}
    \cup {[op |-> "parse_instrument_id", exchange |-> "Binance",
           symbol |-> <<"e", "t", "h", "-", "u", "s", "d", "t">>]}
    \cup {[op |-> "parse_option_kind", option_type |-> "Put"]}
    \cup {[op |-> "parse_timestamp", value_us |-> 2]}
    \cup {[op |-> o, args |-> a] :
        o \in {"FuturesContract::new_checked", "FuturesContract::new"},
        a \in ThreadContractArgs}

-----------------------------------------------------------------------------
(* The driver: a value is constructed, then the operations are called on    *)
(* it.  pc: "start" nothing constructed; "ready" x holds a Money; "done" a  *)
(* call returned (ret holds what it returned); "aborted" a call panicked.   *)

NoMoney == [kind |-> "none"]

\* the state a call leaves: its record, its outcome, the value of `self`
Returns(c, out, self) ==
    /\ call' = c
    /\ ret' = out
    /\ x' = self
    /\ pc' = IF out.kind = "panic" THEN "aborted" ELSE "done"

Binary(name, y) == [op |-> name, lhs |-> x, rhs |-> y]

Neg ==
    /\ pc = "ready"
    /\ \E out \in neg(x) : Returns([op |-> "neg", lhs |-> x], out, x)

\* the expression x + (-x)
AddNeg ==
    /\ pc = "ready"
    /\ \E n \in neg(x) :
          Returns([op |-> "add_neg", lhs |-> x],
                  IF n.kind = "panic" THEN n ELSE add(x, n.val), x)

Add(y) == pc = "ready" /\ Returns(Binary("add", y), add(x, y), x)

Sub(y) == pc = "ready" /\ Returns(Binary("sub", y), sub(x, y), x)

AddAssign(y) ==
    /\ pc = "ready"
    /\ LET out == add_assign(x, y)
       IN  IF out.kind = "panic"
           THEN Returns(Binary("add_assign", y), out, x)
           ELSE Returns(Binary("add_assign", y), Value("unit"), out.val)

SubAssign(y) ==
    /\ pc = "ready"
    /\ LET out == sub_assign(x, y)
       IN  IF out.kind = "panic"
           THEN Returns(Binary("sub_assign", y), out, x)
           ELSE Returns(Binary("sub_assign", y), Value("unit"), out.val)

Eq(y) == pc = "ready" /\ Returns(Binary("eq", y), Value(eq(x, y)), x)

Lt(y) == pc = "ready" /\ Returns(Binary("lt", y), lt(x, y), x)

Le(y) == pc = "ready" /\ Returns(Binary("le", y), le(x, y), x)

Gt(y) == pc = "ready" /\ Returns(Binary("gt", y), gt(x, y), x)

Ge(y) == pc = "ready" /\ Returns(Binary("ge", y), ge(x, y), x)

Cmp(y) == pc = "ready" /\ Returns(Binary("cmp", y), cmp(x, y), x)

PartialCmp(y) == pc = "ready" /\ Returns(Binary("partial_cmp", y), partial_cmp(x, y), x)

NewChecked ==
    /\ pc = "start"
    /\ \E a \in Amounts, c \in Currencies :
          Returns([op |-> "new_checked", amount |-> a, currency |-> c], new_checked(a, c), x)

New ==
    /\ pc = "start"
    /\ \E a \in Amounts, c \in Currencies :
          Returns([op |-> "new", amount |-> a, currency |-> c], new(a, c), x)

\* the calls that return a Money
MoneyOps == {"new_checked", "new", "neg", "add", "sub", "add_neg", "from_str", "deserialize"}

\* `x = <the Money just returned>`
Assign ==
    /\ pc = "done"
    /\ call.op \in MoneyOps
    /\ ret.kind = "value"
    /\ x' = ret.val
    /\ pc' = "ready"
    /\ call' = NoCall
    /\ ret' = NoRet

\* the statement `x += y;` or `x -= y;` is over
Proceed ==
    /\ pc = "done"
    /\ call.op \in {"add_assign", "sub_assign"}
    /\ pc' = "ready"
    /\ call' = NoCall
    /\ ret' = NoRet
    /\ x' = x

Display ==
    /\ pc = "ready"
    /\ Returns([op |-> "to_string", self |-> x], Value(to_string(x)), x)

Serialize ==
    /\ pc = "ready"
    /\ Returns([op |-> "serialize", self |-> x], serialize(x), x)

\* Money::from_str on a text from outside
FromStr ==
    /\ pc = "start"
    /\ \E s \in TextInputs : Returns([op |-> "from_str", value |-> s], from_str(s), x)

\* Money::from_str on the text to_string just returned
FromStrDisplayed ==
    /\ pc = "done"
    /\ call.op = "to_string"
    /\ Returns([op |-> "from_str", value |-> ret.val], from_str(ret.val), x)

\* Money::deserialize on a string from outside, or on a value that is no string
Deserialize ==
    /\ pc = "start"
    /\ \E input \in {[kind |-> "str", val |-> s] : s \in TextInputs} \cup {[kind |-> "other"]} :
          Returns([op |-> "deserialize", input |-> input], deserialize(input), x)

\* Money::deserialize on the string serialize just wrote
DeserializeSerialized ==
    /\ pc = "done"
    /\ call.op = "serialize"
    /\ LET input == [kind |-> "str", val |-> ret.val]
       IN  Returns([op |-> "deserialize", input |-> input], deserialize(input), x)

ParseBarSpec ==
    /\ pc = "start"
    /\ \E v \in BarInputs :
          Returns([op |-> "parse_bar_spec", value |-> v], parse_bar_spec(v), x)

ParseOrderSide ==
    /\ pc = "start"
    /\ \E v \in SideInputs :
          Returns([op |-> "parse_order_side", value |-> v], parse_order_side(v), x)

ParseAggressorSide ==
    /\ pc = "start"
    /\ \E v \in SideInputs :
          Returns([op |-> "parse_aggressor_side", value |-> v], parse_aggressor_side(v), x)

ParseBookAction ==
    /\ pc = "start"
    /\ \E s \in BOOLEAN, a \in BookAmounts :
          Returns([op |-> "parse_book_action", is_snapshot |-> s, amount |-> a],
                  parse_book_action(s, a), x)

ContractNewChecked ==
    /\ pc = "start"
    /\ \E a \in ContractArgs :
          Returns([op |-> "FuturesContract::new_checked", args |-> a], new_checked_with(a), x)

ContractNew ==
    /\ pc = "start"
    /\ \E a \in ContractArgs :
          Returns([op |-> "FuturesContract::new", args |-> a], new_with(a), x)

\* `x = <the FuturesContract just returned>`
AssignContract ==
    /\ pc = "done"
    /\ call.op \in {"FuturesContract::new_checked", "FuturesContract::new"}
    /\ ret.kind = "value"
    /\ x' = ret.val
    /\ pc' = "ready"
    /\ call' = NoCall
    /\ ret' = NoRet

\* x == y
ContractEq(y) ==
    /\ pc = "ready"
    /\ Returns([op |-> "FuturesContract::eq", lhs |-> x, rhs |-> y],
               Value(FuturesContract_eq(x, y)), x)

\* x and y hashed, each with a fresh hasher of the same kind
ContractHash(y) ==
    /\ pc = "ready"
    /\ Returns([op |-> "FuturesContract::hash", lhs |-> x, rhs |-> y],
               Value([lhs |-> FuturesContract_hash(x), rhs |-> FuturesContract_hash(y)]), x)

\* what a call does with its arguments: the outcomes it can end in
Outcomes(c) ==
    CASE c.op = "new" -> {new(c.amount, c.currency)}
      [] c.op = "new_checked" -> {new_checked(c.amount, c.currency)}
      [] c.op = "add" -> {add(c.lhs, c.rhs)}
      [] c.op = "sub" -> {sub(c.lhs, c.rhs)}
      [] c.op = "add_assign" -> {add_assign(c.lhs, c.rhs)}
      [] c.op = "sub_assign" -> {sub_assign(c.lhs, c.rhs)}
      [] c.op = "neg" -> neg(c.lhs)
      [] c.op = "from_str" -> {from_str(c.value)}
      [] c.op = "parse_order_side" -> {parse_order_side(c.value)}
      [] c.op = "parse_aggressor_side" -> {parse_aggressor_side(c.value)}
      [] c.op = "parse_book_action" -> {parse_book_action(c.is_snapshot, c.amount)}
      [] c.op = "parse_bar_spec" -> {parse_bar_spec(c.value)}
      [] c.op = "parse_symbol_str" -> {Value(parse_symbol_str(c.symbol))}
      [] c.op = "parse_instrument_id" -> {parse_instrument_id(c.exchange, c.symbol)}
      [] c.op = "parse_option_kind" -> {parse_option_kind(c.option_type)}
      [] c.op = "parse_timestamp" -> parse_timestamp(c.value_us)
      [] c.op = "FuturesContract::new_checked" -> {new_checked_with(c.args)}
      [] c.op = "FuturesContract::new" -> {new_with(c.args)}

CompoundOps == {"add_assign", "sub_assign"}

\* what the caller of c sees when the call ends in out: the value returned
\* and the Money it lent by `&mut self` (none for the other calls)
Effect(c, out) ==
    IF c.op \in CompoundOps
    THEN [ret |-> IF out.kind = "panic" THEN out ELSE Value("unit"),
          x |-> IF out.kind = "panic" THEN c.lhs ELSE out.val]
    ELSE [ret |-> out, x |-> NoMoney]

\* thread t enters a call; its arguments are its own
Invoke(t, c) ==
    /\ pc[t] = "start"
    /\ pc' = [pc EXCEPT ![t] = "called"]
    /\ call' = [call EXCEPT ![t] = c]
    /\ x' = [x EXCEPT ![t] = IF c.op \in CompoundOps THEN c.lhs ELSE NoMoney]
    /\ ret' = ret

\* the call of thread t returns or panics; a panic unwinds thread t alone
Return(t) ==
    /\ pc[t] = "called"
    /\ \E out \in Outcomes(call[t]) :
          /\ ret' = [ret EXCEPT ![t] = Effect(call[t], out).ret]
          /\ x' = [x EXCEPT ![t] = Effect(call[t], out).x]
          /\ pc' = [pc EXCEPT ![t] = IF out.kind = "panic" THEN "aborted" ELSE "done"]
    /\ call' = call

\* Spec: the receiver is any Money (from_raw over all of i64), one call
Init ==
    /\ pc = "ready"
    /\ x \in {from_raw(r, c) : r \in I64, c \in Currencies}
    /\ call = NoCall
    /\ ret = NoRet

Next ==
    \/ Neg
    \/ AddNeg
    \/ \E y \in Operands : Add(y)
    \/ \E y \in Operands : Sub(y)
    \/ \E y \in Operands : AddAssign(y)
    \/ \E y \in Operands : SubAssign(y)
    \/ \E y \in Operands : Eq(y)
    \/ \E y \in Operands : Lt(y)
    \/ \E y \in Operands : Le(y)
    \/ \E y \in Operands : Gt(y)
    \/ \E y \in Operands : Ge(y)
    \/ \E y \in Operands : Cmp(y)
    \/ \E y \in Operands : PartialCmp(y)

Spec == Init /\ [][Next]_vars

-----------------------------------------------------------------------------
(* Claims on Money arithmetic and comparison, checked under Spec *)

ArithOps == {"add", "sub", "add_assign", "sub_assign"}

OrderOps == {"lt", "le", "gt", "ge", "cmp", "partial_cmp"}

Mismatch == call.lhs.currency # call.rhs.currency

\* the mathematical result of an arithmetic call
Exact == IF call.op \in {"add", "add_assign"} THEN call.lhs.raw + call.rhs.raw
                                                ELSE call.lhs.raw - call.rhs.raw

FitsI64(n) == -Pow(2, I64_BITS - 1) <= n /\ n < Pow(2, I64_BITS - 1)

\* C1: x + y, x - y, x += y and x -= y on operands of different currencies
\* abort; none returns a value; the compound forms leave x as it was.
C1_MismatchAborts ==
    (call.op \in ArithOps /\ Mismatch)
        => (pc = "aborted" /\ ret.kind = "panic" /\ x = call.lhs)

C1_Witness ==
    /\ call.op = "sub_assign"
    /\ Mismatch
    /\ call.rhs.raw # 0
    /\ pc = "aborted"

\* C2: on operands of one currency, add / += abort when the sum of the raws
\* leaves i64 and sub / -= abort when the difference does; otherwise the
\* result has exactly the mathematical raw and the same currency (no wrap).
C2_CheckedArithmetic ==
    (call.op \in ArithOps /\ ~Mismatch) =>
        IF ~FitsI64(Exact)
        THEN pc = "aborted" /\ ret.kind = "panic" /\ x = call.lhs
        ELSE /\ pc = "done"
             /\ IF call.op \in {"add", "sub"}
                THEN ret = Value(Money(Exact, call.lhs.currency)) /\ x = call.lhs
                ELSE x = Money(Exact, call.lhs.currency)

C2_Witness ==
    /\ call.op = "sub"
    /\ ~Mismatch
    /\ Exact < I64_MIN
    /\ pc = "aborted"

\* C5 as stated: for every raw of i64, x + (-x) returns a zero of x's currency.
C5_AddNegIsZero ==
    call.op = "add_neg" => ret = Value(Money(0, call.lhs.currency))

\* C5 amended: for every raw but i64::MIN, x + (-x) returns a zero of x's
\* currency; for raw = i64::MIN the expression aborts and returns nothing.
C5_AddNegIsZeroButMin ==
    call.op = "add_neg" =>
        IF call.lhs.raw = I64_MIN
        THEN pc = "aborted" /\ ret.kind = "panic"
        ELSE pc = "done" /\ ret = Value(Money(0, call.lhs.currency))

C5_Witness ==
    /\ call.op = "add_neg"
    /\ call.lhs.raw = I64_MAX
    /\ pc = "done"
    /\ ret.val.raw = 0

\* what comparing the raws gives for each ordering operation
RawComparison ==
    CASE call.op = "lt" -> call.lhs.raw < call.rhs.raw
      [] call.op = "le" -> ~(call.rhs.raw < call.lhs.raw)
      [] call.op = "gt" -> call.rhs.raw < call.lhs.raw
      [] call.op = "ge" -> ~(call.lhs.raw < call.rhs.raw)
      [] call.op = "cmp" ->
            IF call.lhs.raw < call.rhs.raw THEN "Less"
            ELSE IF call.rhs.raw < call.lhs.raw THEN "Greater" ELSE "Equal"
      [] call.op = "partial_cmp" ->
            Some(IF call.lhs.raw < call.rhs.raw THEN "Less"
                 ELSE IF call.rhs.raw < call.lhs.raw THEN "Greater" ELSE "Equal")

\* C6: <, <=, >, >=, cmp, partial_cmp abort on different currencies and
\* otherwise return the comparison of the raws; == never aborts and is true
\* exactly when raw and currency are equal (so, on one currency, exactly when
\* cmp gives Equal).
C6_Comparison ==
    /\ call.op \in OrderOps =>
          IF Mismatch THEN pc = "aborted" /\ ret.kind = "panic"
          ELSE pc = "done" /\ ret = Value(RawComparison)
    /\ call.op = "eq" =>
          /\ pc = "done"
          /\ ret.val = (call.lhs = call.rhs)
    /\ (call.op = "cmp" /\ ~Mismatch) =>
          ((ret.val = "Equal") = (call.lhs = call.rhs))

C6_Witness ==
    /\ call.op = "le"
    /\ ~Mismatch
    /\ call.lhs.raw = call.rhs.raw
    /\ pc = "done"
    /\ ret.val = TRUE

-----------------------------------------------------------------------------
(* SpecNew: values are made by Money::new / new_checked alone, then         *)
(* combined by any sequence of negate, add, subtract, += and -=.            *)

InitNew ==
    /\ pc = "start"
    /\ x = NoMoney
    /\ call = NoCall
    /\ ret = NoRet

NextNew ==
    \/ NewChecked
    \/ New
    \/ Assign
    \/ Proceed
    \/ Neg
    \/ \E y \in NewOperands : Add(y)
    \/ \E y \in NewOperands : Sub(y)
    \/ \E y \in NewOperands : AddAssign(y)
    \/ \E y \in NewOperands : SubAssign(y)

SpecNew == InitNew /\ [][NextNew]_vars

\* the amount a raw decodes to lies within [MONEY_MIN, MONEY_MAX]
DecodesInRange(m) ==
    /\ MONEY_MIN * Pow(10, FIXED_PRECISION) <= m.raw
    /\ m.raw <= MONEY_MAX * Pow(10, FIXED_PRECISION)

\* C3: every Money reached from Money::new values through non-aborting add,
\* subtract, negate, += and -= decodes to an amount in [MONEY_MIN, MONEY_MAX].
C3_RangeInvariant ==
    /\ (pc \in {"ready", "done"} /\ x # NoMoney) => DecodesInRange(x)
    /\ (pc = "done" /\ call.op \in MoneyOps /\ ret.kind = "value") => DecodesInRange(ret.val)

\* the amount of a constructor call lies outside [MONEY_MIN, MONEY_MAX]
AmountOutside ==
    \/ call.amount.num < MONEY_MIN * Pow(10, call.amount.digits)
    \/ call.amount.num > MONEY_MAX * Pow(10, call.amount.digits)

\* raw is a whole number of ticks of `precision` digits and no tick is nearer
\* to the amount: |raw / 10^FIXED_PRECISION - num / 10^digits| <= tick / 2
NearestTick(raw, amount, precision) ==
    LET tick == Pow(10, FIXED_PRECISION - precision)
        scale == Pow(10, amount.digits)
    IN  /\ raw % tick = 0
        /\ 2 * Abs(raw * scale - amount.num * Pow(10, FIXED_PRECISION)) <= tick * scale

-----------------------------------------------------------------------------
(* SpecStr: the textual form of Money.  A Money made by Money::new is      *)
(* written and read back; texts from outside are parsed.                    *)

NextStr ==
    \/ New
    \/ Assign
    \/ Display
    \/ Serialize
    \/ FromStr
    \/ FromStrDisplayed
    \/ Deserialize
    \/ DeserializeSerialized

SpecStr == InitNew /\ [][NextStr]_vars

TokenStarts(s) ==
    {i \in 1..Len(s) : s[i] \notin Whitespace /\ (i = 1 \/ s[i - 1] \in Whitespace)}

TokenAt(s, i) ==
    LET j == CHOOSE k \in i..Len(s) :
                 /\ \A m \in i..k : s[m] \notin Whitespace
                 /\ (k = Len(s) \/ s[k + 1] \in Whitespace)
    IN  SubSeq(s, i, j)

\* the text of a decimal number: an optional sign, then digits with at most
\* one point among them and at least one digit
IsNumberText(t) ==
    LET from1 == IF t # <<>> /\ t[1] \in {"+", "-"} THEN 2 ELSE 1
    IN  /\ \A i \in from1..Len(t) : IsDigit(t[i]) \/ t[i] = "."
        /\ Cardinality({i \in from1..Len(t) : t[i] = "."}) <= 1
        /\ \E i \in from1..Len(t) : IsDigit(t[i])

\* exactly two tokens: a number once every '_' is removed, then a known code
WellShaped(s) ==
    /\ Cardinality(TokenStarts(s)) = 2
    /\ LET first == CHOOSE i \in TokenStarts(s) : \A j \in TokenStarts(s) : i <= j
           second == CHOOSE i \in TokenStarts(s) : \A j \in TokenStarts(s) : j <= i
       IN  /\ IsNumberText(SelectSeq(TokenAt(s, first), LAMBDA c : c # "_"))
           /\ \E c \in Currencies : c.code = TokenAt(s, second)

\* the same text with the '_' of its first token removed
WithoutSeparators(s) ==
    LET first == CHOOSE i \in TokenStarts(s) : \A j \in TokenStarts(s) : i <= j
        tok == TokenAt(s, first)
    IN  SubSeq(s, 1, first - 1)
        \o SelectSeq(tok, LAMBDA c : c # "_")
        \o SubSeq(s, first + Len(tok), Len(s))

\* an error that says what was wrong and with which text
Descriptive(e, s) ==
    /\ e.kind = "err"
    /\ \/ e.msg[1] = "Error invalid input format" /\ e.msg[2] = s
       \/ e.msg[1] = "Error parsing amount" /\ \E i \in TokenStarts(s) : e.msg[2] = TokenAt(s, i)
       \/ e.msg[1] = "Unknown currency" /\ \E i \in TokenStarts(s) : e.msg[2] = TokenAt(s, i)

\* C8: from_str accepts a text only if it is exactly two whitespace-delimited
\* tokens, a number once every '_' is removed and a known currency code; any
\* other shape gets a descriptive error value; a token with '_' separators
\* parses to the same Money as the token without them.
C8_FromStrShapes ==
    call.op = "from_str" =>
        /\ ret.kind = "value" => WellShaped(call.value)
        /\ ~WellShaped(call.value) => (pc = "done" /\ Descriptive(ret, call.value))
        /\ WellShaped(call.value) => ret = from_str(WithoutSeparators(call.value))

C8_Witness ==
    /\ call.op = "from_str"
    /\ call.value = <<"1", "_", "0", " ", "U", "S", "D">>
    /\ ret = Value(Money(10 * Pow(10, FIXED_PRECISION), USD))

\* C9: for every input text, a well-formed one with an out-of-range amount
\* included, from_str and deserialize return an error value and never abort.
C9_ParsersNeverAbort ==
    call.op \in {"from_str", "deserialize"} => (pc # "aborted" /\ ret.kind # "panic")

-----------------------------------------------------------------------------
(* SpecTardis: the normaliser's parsers, each called on a text from outside *)

NextTardis ==
    \/ ParseBarSpec
    \/ ParseOrderSide
    \/ ParseAggressorSide
    \/ ParseBookAction

SpecTardis == InitNew /\ [][NextTardis]_vars

\* the text after the last '_' (the whole text when it has none)
LastSegment(s) ==
    LET seps == {i \in 1..Len(s) : s[i] = "_"}
        after == IF seps = {} THEN 1 ELSE (CHOOSE i \in seps : \A j \in seps : j <= i) + 1
    IN  SubSeq(s, after, Len(s))

UnitTable ==
    {<<<<"m", "s">>, "Millisecond">>,
     <<<<"s">>, "Second">>,
     <<<<"m">>, "Minute">>,
     <<<<"t", "i", "c", "k", "s">>, "Tick">>,
     <<<<"v", "o", "l">>, "Volume">>}

\* C10: when the last '_'-delimited segment is a non-empty run of digits that
\* fits usize followed by one of ms, s, m, ticks, vol, parse_bar_spec returns
\* the step the digits write, the aggregation of that suffix and price type
\* Last; the result is that of the last segment alone.
C10_BarSpec ==
    call.op = "parse_bar_spec" =>
        \A k \in 1..Len(LastSegment(call.value)), u \in UnitTable :
            LET seg == LastSegment(call.value)
                run == SubSeq(seg, 1, k)
            IN  (/\ \A i \in 1..k : IsDigit(run[i])
                 /\ SubSeq(seg, k + 1, Len(seg)) = u[1]
                 /\ DecimalValue(run) < Pow(2, USIZE_BITS))
                => /\ pc = "done"
                   /\ ret = Value([step |-> DecimalValue(run),
                                   aggregation |-> u[2],
                                   price_type |-> "Last"])
                   /\ ret = parse_bar_spec(seg)

C10_Witness ==
    /\ call.op = "parse_bar_spec"
    /\ call.value = <<"t", "r", "a", "d", "e", "_", "b", "a", "r", "_", "1", "0", "m", "s">>
    /\ ret = Value([step |-> 10, aggregation |-> "Millisecond", price_type |-> "Last"])

\* the digits a text starts with
RECURSIVE DigitRun(_)
DigitRun(s) ==
    IF s = <<>> \/ ~IsDigit(Head(s)) THEN <<>> ELSE <<Head(s)>> \o DigitRun(Tail(s))

BarFailures == {"Invalid bar spec", "Invalid step", "Unsupported bar aggregation type"}

\* the failure the three tests give when made in their order on the last
\* segment, "none" when all three pass
BarFailure(s) ==
    LET seg == LastSegment(s)
        run == DigitRun(seg)
        suffix == SubSeq(seg, Len(run) + 1, Len(seg))
    IN  IF s = <<>> \/ run = seg THEN "Invalid bar spec"
        ELSE IF run = <<>> \/ ~(DecimalValue(run) < Pow(2, USIZE_BITS)) THEN "Invalid step"
        ELSE IF \A u \in UnitTable : u[1] # suffix THEN "Unsupported bar aggregation type"
        ELSE "none"

\* C11: parse_bar_spec aborts with "Invalid bar spec" when the text is empty
\* or its last segment has no non-digit; else with "Invalid step" when the
\* leading digits (none included) do not parse as usize; else with
\* "Unsupported bar aggregation type" when the suffix is none of ms, s, m,
\* ticks, vol; every other text returns a specification.  No call ends in any
\* other way.
C11_BarSpecFailures ==
    call.op = "parse_bar_spec" =>
        /\ ret.kind \in {"panic", "value"}
        /\ ret.kind = "panic" => (pc = "aborted" /\ ret.msg \in BarFailures)
        /\ IF BarFailure(call.value) = "none"
           THEN pc = "done" /\ ret.kind = "value"
           ELSE ret = Panic(BarFailure(call.value))

\* digits that overflow usize before a suffix that is no unit: the step fails first
C11_Witness ==
    /\ call.op = "parse_bar_spec"
    /\ call.value = <<"1", "m", "_", "5", "5", "5", "x">>
    /\ pc = "aborted"
    /\ ret = Panic("Invalid step")

\* an amount that is zero: 0.0 or -0.0
IsZeroAmount(a) == a = NEG_ZERO \/ (a \notin {NAN, INFINITY, NEG_ZERO} /\ a.num = 0)

\* C12: parse_book_action never fails; it returns Add whenever is_snapshot
\* is true (also for a zero amount), Delete when is_snapshot is false and the
\* amount is zero, Update when is_snapshot is false and the amount is not zero.
C12_BookAction ==
    call.op = "parse_book_action" =>
        /\ pc = "done"
        /\ call.is_snapshot => ret = Value("Add")
        /\ (~call.is_snapshot /\ IsZeroAmount(call.amount)) => ret = Value("Delete")
        /\ (~call.is_snapshot /\ ~IsZeroAmount(call.amount)) => ret = Value("Update")

\* a snapshot entry with a zero amount
C12_Witness ==
    /\ call.op = "parse_book_action"
    /\ call.is_snapshot
    /\ call.amount = Amount(0, 1)
    /\ ret = Value("Add")

\* C13: parse_order_side and parse_aggressor_side never fail; parse_order_side
\* returns Buy exactly for "bid", Sell exactly for "ask" and NoOrderSide for
\* every other text; parse_aggressor_side returns Buyer exactly for "buy",
\* Seller exactly for "sell" and NoAggressor for every other text.
C13_Sides ==
    /\ call.op = "parse_order_side" =>
          /\ pc = "done" /\ ret.kind = "value"
          /\ ret.val = "Buy" <=> call.value = <<"b", "i", "d">>
          /\ ret.val = "Sell" <=> call.value = <<"a", "s", "k">>
          /\ ret.val = "NoOrderSide" <=> call.value \notin {<<"b", "i", "d">>, <<"a", "s", "k">>}
    /\ call.op = "parse_aggressor_side" =>
          /\ pc = "done" /\ ret.kind = "value"
          /\ ret.val = "Buyer" <=> call.value = <<"b", "u", "y">>
          /\ ret.val = "Seller" <=> call.value = <<"s", "e", "l", "l">>
          /\ ret.val = "NoAggressor" <=> call.value \notin {<<"b", "u", "y">>, <<"s", "e", "l", "l">>}

\* the aggressor's word handed to parse_order_side
C13_Witness ==
    /\ call.op = "parse_order_side"
    /\ call.value = <<"b", "u", "y">>
    /\ pc = "done"
    /\ ret = Value("NoOrderSide")

-----------------------------------------------------------------------------
(* SpecFutures: a FuturesContract is constructed, then compared and hashed *)

NextFutures ==
    \/ ContractNewChecked
    \/ ContractNew
    \/ AssignContract
    \/ \E y \in ContractOperands : ContractEq(y)
    \/ \E y \in ContractOperands : ContractHash(y)

SpecFutures == InitNew /\ [][NextFutures]_vars

\* C14: for two constructed contracts a and b, a == b holds exactly when
\* a.id = b.id, whatever the other fields, and a == b implies that a and b
\* hash alike.
C14_EqHashById ==
    /\ call.op = "FuturesContract::eq" =>
          pc = "done" /\ ret = Value(call.lhs.id = call.rhs.id)
    /\ call.op = "FuturesContract::hash" =>
          (FuturesContract_eq(call.lhs, call.rhs) => ret.val.lhs = ret.val.rhs)

\* same id, different price precision and minimum quantity: equal
C14_Witness ==
    /\ call.op = "FuturesContract::eq"
    /\ call.lhs.id = call.rhs.id
    /\ call.lhs.price_precision # call.rhs.price_precision
    /\ call.lhs.min_quantity # call.rhs.min_quantity
    /\ ret = Value(TRUE)

ConstructorOps == {"FuturesContract::new_checked", "FuturesContract::new"}

\* the number of the first check the arguments violate, 0 when they pass all
FirstViolation(a) ==
    IF a.exchange.kind = "some"
          /\ \A i \in 1..Len(a.exchange.val) : a.exchange.val[i] = " " THEN 1
    ELSE IF Len(a.underlying) = 0 THEN 2
    ELSE IF a.price_precision # a.price_increment.precision THEN 3
    ELSE IF ~(a.price_increment.raw > 0) THEN 4
    ELSE 0

\* the error each check returns; the check of the exchange hands the name
\* isin to its error
CheckError(i) ==
    CASE i = 1 -> Err(<<"invalid string", "isin">>)
      [] i = 2 -> Err(<<"invalid string", "underlying">>)
      [] i = 3 -> Err(<<"not equal", "price_precision", "price_increment.precision">>)
      [] i = 4 -> Err(<<"not positive", "price_increment.raw">>)

\* the contract the arguments describe
ContractOf(a) ==
    [id |-> a.id,
     raw_symbol |-> a.raw_symbol,
     asset_class |-> a.asset_class,
     exchange |-> a.exchange,
     underlying |-> a.underlying,
     activation_ns |-> a.activation_ns,
     expiration_ns |-> a.expiration_ns,
     currency |-> a.currency,
     price_precision |-> a.price_precision,
     price_increment |-> a.price_increment,
     size_precision |-> 0,
     size_increment |-> [raw |-> Pow(10, FIXED_PRECISION), precision |-> 0],
     multiplier |-> a.multiplier,
     lot_size |-> a.lot_size,
     margin_init |-> IF a.margin_init.kind = "none" THEN 0 ELSE a.margin_init.val,
     margin_maint |-> IF a.margin_maint.kind = "none" THEN 0 ELSE a.margin_maint.val,
     max_quantity |-> a.max_quantity,
     min_quantity |-> IF a.min_quantity.kind = "none"
                      THEN Some([raw |-> Pow(10, FIXED_PRECISION), precision |-> 0])
                      ELSE a.min_quantity,
     max_price |-> a.max_price,
     min_price |-> a.min_price,
     ts_event |-> a.ts_event,
     ts_init |-> a.ts_init]

\* C15: new_checked returns an error exactly when (1) the exchange is present
\* and empty once trimmed, or (2) the underlying is empty, or (3)
\* price_precision differs from price_increment.precision, or (4)
\* price_increment.raw is not positive, and the error is that of the first of
\* these in this order; otherwise it returns the contract of the given fields
\* with size_precision 0, size_increment 1, margins defaulting to zero and
\* min_quantity defaulting to 1.  new aborts exactly when new_checked errs and
\* returns the same contract otherwise.
C15_NewChecked ==
    /\ call.op = "FuturesContract::new_checked" =>
          /\ pc = "done"
          /\ ret = IF FirstViolation(call.args) = 0 THEN Value(ContractOf(call.args))
                   ELSE CheckError(FirstViolation(call.args))
    /\ call.op = "FuturesContract::new" =>
          IF FirstViolation(call.args) = 0
          THEN pc = "done" /\ ret = Value(ContractOf(call.args))
          ELSE pc = "aborted" /\ ret.kind = "panic"

\* precision and sign of the increment both wrong, defaults asked for: the
\* error is that of the precision
C15_Witness ==
    /\ call.op = "FuturesContract::new_checked"
    /\ call.args.exchange = Some(<<"X", "C", "M", "E">>)
    /\ call.args.underlying # <<>>
    /\ call.args.price_precision # call.args.price_increment.precision
    /\ call.args.price_increment.raw = 0
    /\ ret = Err(<<"not equal", "price_precision", "price_increment.precision">>)

\* a contract built with every default
C15_WitnessDefaults ==
    /\ call.op = "FuturesContract::new_checked"
    /\ call.args.min_quantity.kind = "none"
    /\ call.args.margin_init.kind = "none"
    /\ ret.kind = "value"
    /\ ret.val.min_quantity = Some(Quantity_from(1))

\* the names an error carries
Labels(e) == {e.msg[i] : i \in 2..Len(e.msg)}

\* the names of the fields each check is about
OffendingFields(i) ==
    CASE i = 1 -> {"exchange"}
      [] i = 2 -> {"underlying"}
      [] i = 3 -> {"price_precision", "price_increment.precision"}
      [] i = 4 -> {"price_increment.raw"}

\* C16: every error new_checked returns names the field of the check that
\* failed: exchange, underlying, price_precision and
\* price_increment.precision, price_increment.raw.
C16_ErrorsNameField ==
    (call.op = "FuturesContract::new_checked" /\ ret.kind = "err") =>
        OffendingFields(FirstViolation(call.args)) \subseteq Labels(ret)

-----------------------------------------------------------------------------
(* SpecThreads: NumThreads threads, each issuing one call on arguments of   *)
(* its own; pc, x, call and ret hold one entry per thread.  A call is two   *)
(* steps, entry and return, and the steps of the threads interleave.        *)

InitThreads ==
    /\ pc = [t \in Threads |-> "start"]
    /\ x = [t \in Threads |-> NoMoney]
    /\ call = [t \in Threads |-> NoCall]
    /\ ret = [t \in Threads |-> NoRet]

NextThreads ==
    \/ \E t \in Threads, c \in ThreadCalls : Invoke(t, c)
    \/ \E t \in Threads : Return(t)

SpecThreads == InitThreads /\ [][NextThreads]_vars

Finished(t) == pc[t] \in {"done", "aborted"}

====
